---- MODULE Spec2Model ----
(***************************************************************************)
(* Model of the async-ttl cache (src/src/lib.rs): the AsyncTtl facade with *)
(* its two tokio RwLocks (expires, data), concurrent callers of insert and *)
(* read, and the AsyncTtlExpireTask::run loop.                             *)
(*                                                                         *)
(* Time.  The code reads the clock only through created_at.elapsed()       *)
(* (EntryExpire::expires_in) and through time::sleep(duration).  A record  *)
(* therefore carries `elapsed` (= now - created_at) and the task carries   *)
(* `sleepLeft` (= sleep deadline - now); the action Tick lets one unit of  *)
(* time pass.  Values are capped where the code can no longer tell them    *)
(* apart, which keeps the state space finite although time is unbounded.   *)
(*                                                                         *)
(* Locks.  tokio::sync::RwLock is fair (write-preferring): requests are    *)
(* served first-in first-out, and a reader queued behind a writer waits.   *)
(***************************************************************************)
EXTENDS Integers, Sequences, FiniteSets, TLC

\* ---------------------------------------------------------------- bounds
\* The most records the queue holds, inserts in progress included.
MaxQueue == 2

\* The configurations AsyncTtl::new is given: a TTL long enough for a second
\* insert of a key to fall inside it, with a grace delay; an empty_delay longer
\* than TTL + delta_delay, with no grace delay; and both delays zero (the task
\* polls an empty queue without sleeping).
Configs ==
  { [expires_after |-> 2, empty_delay |-> 1, delta_delay |-> 1],
    [expires_after |-> 1, empty_delay |-> 2, delta_delay |-> 0],
    [expires_after |-> 1, empty_delay |-> 0, delta_delay |-> 0] }

Keys == {"a", "b"}
Callers == {"c1", "c2"}
\* The value a caller inserts: each caller writes a value of its own, so that
\* the store tells whose insert of a key came last.
ValueOf(c) == IF c = "c1" THEN "v1" ELSE "v2"
Task == "task"
Procs == Callers \cup {Task}
None == "none"

VARIABLES
  config,     \* AsyncTtl.config
  expires,    \* AsyncTtl.expires: the expiration queue (front = index 1)
  data,       \* AsyncTtl.data: the store, a function from the keys present
  qlock,      \* the RwLock around expires
  dlock,      \* the RwLock around data
  pc,         \* where each caller and the task stands
  arg,        \* the (key, value) of a caller's insert in progress
  sleepLeft,  \* time left of the task's time::sleep
  \* History of the execution, kept for one key: the key the timing
  \* properties below speak about, any key of Keys.
  watch,      \* that key
  latest,     \* the value of the key's last insert, and whether a record of
              \* the key has been popped since
  fresh,      \* the caller that has just completed the key's last insert:
              \* until time passes or the caller's next operation ends
  since,      \* time since the key's last insert (capped), -1 if never
  clean,      \* time since the key's last insert made with no pending record
              \* of the key in the queue (capped), -1 if never
  first,      \* time since the key's first insert (capped), -1 if never
  covered,    \* the key's last insert was made with the task running, and the
              \* task has not been cancelled since
  peeked,     \* the front record is the one the task's sleep was computed from
  owed,       \* the running pass: how many records of other keys still in
              \* the queue were inserted within delta_delay after the record
              \* the sleep was computed from (.first), after the record
              \* popped last (.last)
  ripe,       \* the running pass: the key's last (.last) or first (.any)
              \* insert was TTL + delta_delay old or older when the pass woke
  done        \* such a pass has completed, with no insert of the key since

hist == <<watch, latest, since, clean, first, covered>>
passes == <<peeked, owed, ripe, done>>
vars == <<config, expires, data, qlock, dlock, pc, arg, sleepLeft,
          watch, latest, fresh, since, clean, first, covered, peeked,
          owed, ripe, done>>

Min(a, b) == IF a < b THEN a ELSE b
Max(a, b) == IF a > b THEN a ELSE b

\* Duration::saturating_sub
SaturatingSub(a, b) == IF a > b THEN a - b ELSE 0

\* ------------------------------------------------------------ the RwLock
FreeLock == [writer |-> None, readers |-> {}, waiters |-> <<>>]

RECURSIVE Grant(_)
\* Hands the lock to the requests at the head of the wait queue, in order, for
\* as long as they are compatible with the current holders.
Grant(l) ==
  IF l.waiters = <<>> THEN l
  ELSE LET h == Head(l.waiters) IN
       IF h.mode = "w"
       THEN IF l.writer = None /\ l.readers = {}
            THEN [l EXCEPT !.writer = h.proc, !.waiters = Tail(@)]
            ELSE l
       ELSE IF l.writer = None
            THEN Grant([l EXCEPT !.readers = @ \cup {h.proc}, !.waiters = Tail(@)])
            ELSE l

\* RwLock::read / RwLock::write: the request joins the queue and is granted at
\* once when nothing is ahead of it and the holders allow it.
Acquire(l, p, m) ==
  Grant([l EXCEPT !.waiters = Append(@, [proc |-> p, mode |-> m])])

\* Drop of a guard.
Release(l, p) ==
  Grant([l EXCEPT !.writer = IF @ = p THEN None ELSE @, !.readers = @ \ {p}])

Holds(l, p) == l.writer = p \/ p \in l.readers
Waits(l, p) == \E i \in 1..Len(l.waiters) : l.waiters[i].proc = p

\* Drop of a pending or granted request (a future dropped at an await).
Abandon(l, p) ==
  LET keep == SelectSeq(l.waiters, LAMBDA w : w.proc # p) IN
  Grant([l EXCEPT !.writer = IF @ = p THEN None ELSE @,
                  !.readers = @ \ {p},
                  !.waiters = keep])

\* ------------------------------------------------------------ the records
\* EntryExpire::new, with created_at = Instant::now()
EntryExpire(k, ttl) == [key |-> k, elapsed |-> 0, expires_after |-> ttl]

\* variant: the subtraction does not saturate
expires_in_signed(e) == e.expires_after - e.elapsed

\* variant: the entry counts as expired one time unit early
expires_in_unit(e) == SaturatingSub(e.expires_after, e.elapsed + 1)

\* EntryExpire::expires_in
expires_in(e) == SaturatingSub(e.expires_after, e.elapsed)

\* TTL + delta_delay, and the largest elapsed times the model tells apart.
Grace == config.expires_after + config.delta_delay
ElapsedCap == Grace
SinceCap == Max(config.expires_after + config.delta_delay, config.empty_delay) + 1

\* variant: the new record replaces the pending records of its key
push_back_refresh(q, e) == Append(SelectSeq(q, LAMBDA r : r.key # e.key), e)

\* variant: the new record goes to the front
push_front(q, e) == <<e>> \o q

\* VecDeque::push_back
push_back(q, e) == Append(q, e)

\* variant: an insert that keeps the value of a key already present
insert_cache_keep(d, k, v) ==
  [x \in DOMAIN d \cup {k} |-> IF x \in DOMAIN d THEN d[x] ELSE v]

\* CacheMap::insert_cache
insert_cache(d, k, v) == [x \in DOMAIN d \cup {k} |-> IF x = k THEN v ELSE d[x]]

\* variant: the removal leaves the key in the store
remove_cache_skip(d, k) == d

\* CacheMap::remove_cache
remove_cache(d, k) == [x \in DOMAIN d \ {k} |-> d[x]]

EmptyMap == [x \in {} |-> "v1"]

NoArg == [key |-> None, value |-> None]
NoInsert == [value |-> None, fired |-> FALSE]

NoKeys == [last |-> FALSE, any |-> FALSE]
NoneOwed == [first |-> 0, last |-> 0]

\* the number of records of q, of another key than record e, inserted within
\* delta_delay after e
Near(q, e) ==
  Cardinality({i \in 1..Len(q) :
                 /\ q[i].key # e.key
                 /\ e.elapsed - q[i].elapsed <= config.delta_delay})

HasRecord(q, k) == \E i \in 1..Len(q) : q[i].key = k

\* ------------------------------------------------------------------ Init
\* AsyncTtl::new
Init ==
  /\ config \in Configs
  /\ expires = <<>>
  /\ data = EmptyMap
  /\ qlock = FreeLock
  /\ dlock = FreeLock
  /\ pc = [p \in Procs |-> IF p = Task THEN "unstarted" ELSE "idle"]
  /\ arg = [c \in Callers |-> NoArg]
  /\ sleepLeft = 0
  /\ latest = NoInsert
  /\ fresh = None
  /\ watch \in Keys
  /\ since = -1
  /\ clean = -1
  /\ first = -1
  /\ covered = FALSE
  /\ peeked = FALSE
  /\ owed = NoneOwed
  /\ ripe = NoKeys
  /\ done = NoKeys

\* --------------------------------------------------------------- callers
\* run() has been started and its future is still driven
Running == pc[Task] \notin {"unstarted", "cancelled", "panicked"}

\* insert(): self.expires.write().await is requested
InsertCall(c, k, v) ==
  /\ pc[c] = "idle"
  /\ Len(expires) + Cardinality({x \in Callers : pc[x] \in {"ins_wq", "ins_wd"}}) < MaxQueue
  /\ qlock' = Acquire(qlock, c, "w")
  /\ pc' = [pc EXCEPT ![c] = "ins_wq"]
  /\ arg' = [arg EXCEPT ![c] = [key |-> k, value |-> v]]
  /\ fresh' = IF fresh = c THEN None ELSE fresh
  /\ UNCHANGED <<config, expires, data, dlock, sleepLeft, hist, passes>>

\* variant: the queue's write guard is given back before the store's is requested
InsertGotQ_handover(c) ==
  /\ pc[c] = "ins_wq"
  /\ qlock.writer = c
  /\ qlock' = Release(qlock, c)
  /\ dlock' = Acquire(dlock, c, "w")
  /\ pc' = [pc EXCEPT ![c] = "ins_wd"]
  /\ UNCHANGED <<config, expires, data, arg, sleepLeft, fresh, hist, passes>>

\* insert(): the queue's write guard is obtained, self.data.write().await is requested
InsertGotQ(c) ==
  /\ pc[c] = "ins_wq"
  /\ qlock.writer = c
  /\ dlock' = Acquire(dlock, c, "w")
  /\ pc' = [pc EXCEPT ![c] = "ins_wd"]
  /\ UNCHANGED <<config, expires, data, qlock, arg, sleepLeft, fresh,
                 hist, passes>>

\* insert(): both guards held: insert_cache, push_back, and both guards dropped
InsertBody(c) ==
  /\ pc[c] = "ins_wd"
  /\ dlock.writer = c
  /\ LET k == arg[c].key
         v == arg[c].value
     IN /\ data' = insert_cache(data, k, v)
        /\ expires' = push_back(expires, EntryExpire(k, config.expires_after))
        /\ IF k = watch
           THEN /\ latest' = [value |-> v, fired |-> FALSE]
                /\ fresh' = c
                /\ since' = 0
                /\ clean' = IF HasRecord(expires, k) THEN clean ELSE 0
                /\ first' = IF first < 0 THEN 0 ELSE first
                /\ covered' = Running
                /\ ripe' = [ripe EXCEPT !.last = FALSE]
                /\ done' = NoKeys
           ELSE /\ fresh' = IF fresh = c THEN None ELSE fresh
                /\ UNCHANGED <<latest, since, clean, first, covered, ripe, done>>
  /\ dlock' = Release(dlock, c)
  /\ qlock' = Release(qlock, c)
  /\ pc' = [pc EXCEPT ![c] = "idle"]
  /\ arg' = [arg EXCEPT ![c] = NoArg]
  /\ UNCHANGED <<config, sleepLeft, watch, peeked, owed>>

\* variant: read() takes the exclusive lock
ReadCall_exclusive(c) ==
  /\ pc[c] = "idle"
  /\ dlock' = Acquire(dlock, c, "w")
  /\ pc' = [pc EXCEPT ![c] = "read"]
  /\ UNCHANGED <<config, expires, data, qlock, arg, sleepLeft, fresh, hist,
                 passes>>

\* read(): self.data.read().await is requested; the caller has the guard as
\* soon as the lock lists it among its readers
ReadCall(c) ==
  /\ pc[c] = "idle"
  /\ dlock' = Acquire(dlock, c, "r")
  /\ pc' = [pc EXCEPT ![c] = "read"]
  /\ UNCHANGED <<config, expires, data, qlock, arg, sleepLeft, fresh,
                 hist, passes>>

\* the caller drops the RwLockReadGuard
ReadDrop(c) ==
  /\ pc[c] = "read"
  /\ c \in dlock.readers
  /\ dlock' = Release(dlock, c)
  /\ pc' = [pc EXCEPT ![c] = "idle"]
  /\ fresh' = IF fresh = c THEN None ELSE fresh
  /\ UNCHANGED <<config, expires, data, qlock, arg, sleepLeft, hist, passes>>

\* ------------------------------------------------------------------ time
Bump(x, cap) == IF x < 0 THEN x ELSE Min(x + 1, cap)

Tick ==
  /\ expires' = [i \in 1..Len(expires) |->
                   [expires[i] EXCEPT !.elapsed = Min(@ + 1, ElapsedCap)]]
  /\ sleepLeft' = SaturatingSub(sleepLeft, 1)
  /\ since' = Bump(since, SinceCap)
  /\ clean' = Bump(clean, config.expires_after)
  /\ first' = Bump(first, Grace)
  /\ fresh' = None
  /\ UNCHANGED <<config, data, qlock, dlock, pc, arg, watch, latest, covered,
                 passes>>

\* ------------------------------------------------------- expiration task

\* run() is started: top of the loop, self.cache.expires.read().await is requested
TaskStart ==
  /\ pc[Task] \in {"unstarted", "cancelled"}
  /\ qlock' = Acquire(qlock, Task, "r")
  /\ pc' = [pc EXCEPT ![Task] = "peek_wait"]
  /\ UNCHANGED <<config, expires, data, dlock, arg, sleepLeft, fresh,
                 hist, passes>>

\* variant: one time unit more than the front record's expiry + delta_delay
Duration_late(q, cfg) ==
  IF Len(q) > 0 THEN expires_in(q[1]) + cfg.delta_delay + 1 ELSE cfg.empty_delay

\* variant: the sleep ends at the front record's expiry, without delta_delay
Duration_nodelta(q, cfg) ==
  IF Len(q) > 0 THEN expires_in(q[1]) ELSE cfg.empty_delay

\* the sleep duration computed from the front record, or empty_delay
Duration(q, cfg) ==
  IF Len(q) > 0 THEN expires_in(q[1]) + cfg.delta_delay ELSE cfg.empty_delay

\* variant: the read guard is kept across the sleep
TaskPeek_hold ==
  /\ pc[Task] = "peek_wait"
  /\ Task \in qlock.readers
  /\ sleepLeft' = Duration(expires, config)
  /\ peeked' = (Len(expires) > 0)
  /\ pc' = [pc EXCEPT ![Task] = "sleep"]
  /\ UNCHANGED <<config, expires, data, qlock, dlock, arg, fresh, hist, owed, ripe, done>>

\* variant: the peek takes the front record out of the queue
TaskPeek_pop ==
  /\ pc[Task] = "peek_wait"
  /\ Task \in qlock.readers
  /\ sleepLeft' = Duration(expires, config)
  /\ expires' = IF expires = <<>> THEN expires ELSE Tail(expires)
  /\ peeked' = FALSE
  /\ qlock' = Release(qlock, Task)
  /\ pc' = [pc EXCEPT ![Task] = "sleep"]
  /\ UNCHANGED <<config, data, dlock, arg, fresh, hist, owed, ripe, done>>

\* run(): the front of the queue is inspected under the read guard, the guard
\* is dropped and time::sleep(duration) begins
TaskPeek ==
  /\ pc[Task] = "peek_wait"
  /\ Task \in qlock.readers
  /\ sleepLeft' = Duration(expires, config)
  /\ peeked' = (Len(expires) > 0)
  /\ qlock' = Release(qlock, Task)
  /\ pc' = [pc EXCEPT ![Task] = "sleep"]
  /\ UNCHANGED <<config, expires, data, dlock, arg, fresh, hist, owed, ripe, done>>

\* run(): the sleep is over, self.cache.expires.write().await is requested
TaskWake ==
  /\ pc[Task] = "sleep"
  /\ sleepLeft = 0
  /\ qlock' = Acquire(qlock, Task, "w")
  /\ pc' = [pc EXCEPT ![Task] = "wq_wait"]
  /\ ripe' = [last |-> since >= Grace, any |-> first >= Grace]
  /\ UNCHANGED <<config, expires, data, dlock, arg, sleepLeft, fresh,
                 hist, peeked, owed, done>>

\* run(): the queue's write guard is obtained, self.cache.data.write().await is requested
TaskGotQ ==
  /\ pc[Task] = "wq_wait"
  /\ qlock.writer = Task
  /\ dlock' = Acquire(dlock, Task, "w")
  /\ pc' = [pc EXCEPT ![Task] = "wd_wait"]
  /\ UNCHANGED <<config, expires, data, qlock, arg, sleepLeft, fresh,
                 hist, passes>>

\* run(): the store's write guard is obtained, the inner loop is entered
TaskGotD ==
  /\ pc[Task] = "wd_wait"
  /\ dlock.writer = Task
  /\ pc' = [pc EXCEPT ![Task] = "evict"]
  /\ UNCHANGED <<config, expires, data, qlock, dlock, arg, sleepLeft,
                 fresh, hist, passes>>

\* variant: a front record counts as due only after its expiry
FrontDue_strict(q) == IF Len(q) > 0 THEN q[1].elapsed > q[1].expires_after ELSE FALSE

\* variant: a front record counts as due one time unit early
FrontDue_early(q) == IF Len(q) > 0 THEN expires_in(q[1]) <= 1 ELSE FALSE

\* variant: unwrap_or(true), an empty queue counts as due
FrontDue_or_empty(q) == IF Len(q) > 0 THEN expires_in(q[1]) = 0 ELSE TRUE

\* expires.get(0).map(|entry| entry.expires_in().is_zero()).unwrap_or(false)
FrontDue(q) == IF Len(q) > 0 THEN expires_in(q[1]) = 0 ELSE FALSE

\* the whole inner loop, with no time passing inside it: the queue and the
\* store it leaves
RECURSIVE EvictAll(_, _)
EvictAll(q, d) ==
  IF FrontDue(q) THEN EvictAll(Tail(q), remove_cache(d, Head(q).key))
  ELSE <<q, d>>

\* variant: any front record goes on to the pop, due or not
TaskCheck_nonempty ==
  /\ pc[Task] = "evict"
  /\ Len(expires) > 0
  /\ pc' = [pc EXCEPT ![Task] = "pop"]
  /\ UNCHANGED <<config, expires, data, qlock, dlock, arg, sleepLeft,
                 fresh, hist, passes>>

\* run(): one turn of the inner loop: the front record is found due
TaskCheck ==
  /\ pc[Task] = "evict"
  /\ FrontDue(expires)
  /\ pc' = [pc EXCEPT ![Task] = "pop"]
  /\ UNCHANGED <<config, expires, data, qlock, dlock, arg, sleepLeft,
                 fresh, hist, passes>>

\* variant: the removal of a key that is not in the store panics
TaskEvict_unwrap ==
  /\ pc[Task] = "pop"
  /\ IF expires = <<>> \/ Head(expires).key \notin DOMAIN data
     THEN /\ pc' = [pc EXCEPT ![Task] = "panicked"]
          /\ dlock' = Release(dlock, Task)
          /\ qlock' = Release(qlock, Task)
          /\ expires' = IF expires = <<>> THEN expires ELSE Tail(expires)
          /\ UNCHANGED <<data, latest, owed>>
     ELSE LET entry == Head(expires) IN
          /\ expires' = Tail(expires)
          /\ data' = remove_cache(data, entry.key)
          /\ latest' = IF entry.key = watch
                       THEN [latest EXCEPT !.fired = TRUE] ELSE latest
          /\ owed' = [first |-> IF peeked THEN Near(Tail(expires), entry)
                                 ELSE SaturatingSub(owed.first, 1),
                       last |-> Near(Tail(expires), entry)]
          /\ pc' = [pc EXCEPT ![Task] = "evict"]
          /\ UNCHANGED <<qlock, dlock>>
  /\ peeked' = FALSE
  /\ UNCHANGED <<config, arg, sleepLeft, fresh, watch, since,
                 clean, first, covered, ripe, done>>

\* run(): expires.pop_front().unwrap() and data.remove_cache(&entry.key); the
\* unwrap of an empty queue's None panics, and the unwinding drops both guards
TaskEvict ==
  /\ pc[Task] = "pop"
  /\ IF expires = <<>>
     THEN /\ pc' = [pc EXCEPT ![Task] = "panicked"]
          /\ dlock' = Release(dlock, Task)
          /\ qlock' = Release(qlock, Task)
          /\ UNCHANGED <<expires, data, latest, owed>>
     ELSE LET entry == Head(expires) IN
          /\ expires' = Tail(expires)
          /\ data' = remove_cache(data, entry.key)
          /\ latest' = IF entry.key = watch
                       THEN [latest EXCEPT !.fired = TRUE] ELSE latest
          /\ owed' = [first |-> IF peeked THEN Near(Tail(expires), entry)
                                 ELSE SaturatingSub(owed.first, 1),
                       last |-> Near(Tail(expires), entry)]
          /\ pc' = [pc EXCEPT ![Task] = "evict"]
          /\ UNCHANGED <<qlock, dlock>>
  /\ peeked' = FALSE
  /\ UNCHANGED <<config, arg, sleepLeft, fresh, watch, since,
                 clean, first, covered, ripe, done>>

\* variant: the inner loop breaks whether or not the front record is due
TaskPassEnd_any ==
  /\ pc[Task] = "evict"
  /\ dlock' = Release(dlock, Task)
  /\ qlock' = Acquire(Release(qlock, Task), Task, "r")
  /\ pc' = [pc EXCEPT ![Task] = "peek_wait"]
  /\ done' = [last |-> done.last \/ ripe.last, any |-> done.any \/ ripe.any]
  /\ ripe' = NoKeys
  /\ peeked' = FALSE
  /\ owed' = NoneOwed
  /\ UNCHANGED <<config, expires, data, arg, sleepLeft, fresh, hist>>

\* variant: the store's write guard outlives the eviction step
TaskPassEnd_keep ==
  /\ pc[Task] = "evict"
  /\ ~FrontDue(expires)
  /\ qlock' = Acquire(Release(qlock, Task), Task, "r")
  /\ pc' = [pc EXCEPT ![Task] = "peek_wait"]
  /\ done' = [last |-> done.last \/ ripe.last, any |-> done.any \/ ripe.any]
  /\ ripe' = NoKeys
  /\ peeked' = FALSE
  /\ owed' = NoneOwed
  /\ UNCHANGED <<config, expires, data, dlock, arg, sleepLeft, fresh, hist>>

\* run(): the inner loop breaks, both guards are dropped, and the outer loop
\* requests self.cache.expires.read().await again
TaskPassEnd ==
  /\ pc[Task] = "evict"
  /\ ~FrontDue(expires)
  /\ dlock' = Release(dlock, Task)
  /\ qlock' = Acquire(Release(qlock, Task), Task, "r")
  /\ pc' = [pc EXCEPT ![Task] = "peek_wait"]
  /\ done' = [last |-> done.last \/ ripe.last, any |-> done.any \/ ripe.any]
  /\ ripe' = NoKeys
  /\ peeked' = FALSE
  /\ owed' = NoneOwed
  /\ UNCHANGED <<config, expires, data, arg, sleepLeft, fresh, hist>>

\* variant: the dropped future keeps its guards and its place in the queues
TaskCancel_leak ==
  /\ pc[Task] \in {"peek_wait", "sleep", "wq_wait", "wd_wait"}
  /\ sleepLeft' = 0
  /\ pc' = [pc EXCEPT ![Task] = "cancelled"]
  /\ covered' = FALSE
  /\ peeked' = FALSE
  /\ ripe' = NoKeys
  /\ UNCHANGED <<config, expires, data, qlock, dlock, arg, fresh, watch, latest,
                 since, clean, first, owed, done>>

\* the future of run() is dropped at one of its await points
TaskCancel ==
  /\ pc[Task] \in {"peek_wait", "sleep", "wq_wait", "wd_wait"}
  /\ qlock' = Abandon(qlock, Task)
  /\ dlock' = Abandon(dlock, Task)
  /\ sleepLeft' = 0
  /\ pc' = [pc EXCEPT ![Task] = "cancelled"]
  /\ covered' = FALSE
  /\ peeked' = FALSE
  /\ ripe' = NoKeys
  /\ UNCHANGED <<config, expires, data, arg, fresh, watch, latest, since,
                 clean, first, owed, done>>

Next ==
  \/ \E c \in Callers, k \in Keys : InsertCall(c, k, ValueOf(c))
  \/ \E c \in Callers : InsertGotQ(c)
  \/ \E c \in Callers : InsertBody(c)
  \/ \E c \in Callers : ReadCall(c)
  \/ \E c \in Callers : ReadDrop(c)
  \/ TaskStart
  \/ TaskPeek
  \/ TaskWake
  \/ TaskGotQ
  \/ TaskGotD
  \/ TaskCheck
  \/ TaskEvict
  \/ TaskPassEnd
  \/ TaskCancel
  \/ Tick

Spec == Init /\ [][Next]_vars

\* Lock-hold time taken as zero: time passes only while every caller is idle
\* and the task, if it runs, is in a sleep that is not over.
Quiescent ==
  /\ \A c \in Callers : pc[c] = "idle"
  /\ Running => (pc[Task] = "sleep" /\ sleepLeft > 0)

TickTimed == Quiescent /\ Tick

NextTimed ==
  \/ \E c \in Callers, k \in Keys : InsertCall(c, k, ValueOf(c))
  \/ \E c \in Callers : InsertGotQ(c)
  \/ \E c \in Callers : InsertBody(c)
  \/ \E c \in Callers : ReadCall(c)
  \/ \E c \in Callers : ReadDrop(c)
  \/ TaskStart
  \/ TaskPeek
  \/ TaskWake
  \/ TaskGotQ
  \/ TaskGotD
  \/ TaskCheck
  \/ TaskEvict
  \/ TaskPassEnd
  \/ TaskCancel
  \/ TickTimed

SpecTimed == Init /\ [][NextTimed]_vars

\* The task is started and its future is driven for ever (no cancellation);
\* the runtime schedules every ready caller and the task, callers drop their
\* read guards, and time passes.
NextLive ==
  \/ \E c \in Callers, k \in Keys : InsertCall(c, k, ValueOf(c))
  \/ \E c \in Callers : InsertGotQ(c)
  \/ \E c \in Callers : InsertBody(c)
  \/ \E c \in Callers : ReadCall(c)
  \/ \E c \in Callers : ReadDrop(c)
  \/ TaskStart
  \/ TaskPeek
  \/ TaskWake
  \/ TaskGotQ
  \/ TaskGotD
  \/ TaskCheck
  \/ TaskEvict
  \/ TaskPassEnd
  \/ Tick

Fairness ==
  /\ \A c \in Callers :
       WF_vars(InsertGotQ(c)) /\ WF_vars(InsertBody(c)) /\ WF_vars(ReadDrop(c))
  /\ WF_vars(TaskStart) /\ WF_vars(TaskPeek) /\ WF_vars(TaskWake)
  /\ WF_vars(TaskGotQ) /\ WF_vars(TaskGotD) /\ WF_vars(TaskCheck)
  /\ WF_vars(TaskEvict) /\ WF_vars(TaskPassEnd)
  /\ WF_vars(Tick)

SpecFair == Init /\ [][NextLive]_vars /\ Fairness

\* ------------------------------------------------------------ properties
\* A caller holds the read guard returned by read().
Reading(c) == pc[c] = "read" /\ c \in dlock.readers

\* C1 as stated: insert(k, v) followed immediately by read() (no time passes
\* and no other insert of k completes in between) shows k -> v, whatever the
\* expiration task did meanwhile.
C1_ReadAfterInsert ==
  \A c \in Callers :
    (Reading(c) /\ fresh = c)
      => (watch \in DOMAIN data /\ data[watch] = latest.value)

\* C1 amended: a read() that follows the caller's insert(k, v) immediately,
\* with no other insert of k in between, sees k -> v unless the expiration
\* task popped a record of k between the insert and the read (an older record
\* of k that was due); in that case it sees k absent.
C1_ReadAfterInsertUnlessEvicted ==
  \A c \in Callers :
    (Reading(c) /\ fresh = c)
      => IF latest.fired
         THEN watch \notin DOMAIN data
         ELSE watch \in DOMAIN data /\ data[watch] = latest.value

\* C1 witness: a caller reads its own insert back, over the other caller's
\* older value for the key, while the task is in an eviction pass' lock queue.
C1_Witness ==
  \E c \in Callers :
    /\ Reading(c) /\ fresh = c /\ ~latest.fired
    /\ data[watch] = ValueOf(c)
    /\ Len(expires) = 2 /\ expires[1].key = watch /\ expires[2].key = watch
    /\ pc[Task] = "wd_wait"

\* C2 as stated: no early eviction: a key is in the store at every moment
\* earlier than TTL after its last insert, whatever inserts came before.
C2_NoEarlyEviction ==
  (since >= 0 /\ since < config.expires_after) => watch \in DOMAIN data

\* C2 amended: for every insert of k made while the queue holds no pending
\* record of k, k is in the store at every moment earlier than t0 + TTL,
\* whatever inserts (of any key) follow it.
C2_NoEarlyEvictionOfFreshKey ==
  (clean >= 0 /\ clean < config.expires_after) => watch \in DOMAIN data

\* C2 witness: the key was inserted with no pending record, inserted again
\* later, the first record is one tick from due and the task is running.
C2_Witness ==
  /\ clean >= 0 /\ clean = config.expires_after - 1
  /\ since >= 0 /\ since < clean
  /\ watch \in DOMAIN data
  /\ Running

\* the bound claimed for the eviction delay, and the one the loop keeps
Late == Max(Grace, config.empty_delay)

\* C3 as stated (lock-hold time zero), for a task that runs since before the
\* insert: a key is absent at every moment later than TTL + delta_delay after
\* its last insert, whatever empty_delay is.
C3_EvictedWithinDelta ==
  (covered /\ since > Grace) => watch \notin DOMAIN data

\* C3 amended (lock-hold time zero): with the task running since before the
\* insert, a key is absent at every moment later than t0 + TTL + delta_delay or
\* t0 + empty_delay, whichever is later, after its last insert at t0.
C3_EvictedWithinDeltaOrEmptyDelay ==
  (covered /\ since > Late) => watch \notin DOMAIN data

\* C3 witness: the key was inserted while the task slept empty_delay (longer
\* than TTL + delta_delay), and is gone after that delay.
C3_Witness ==
  /\ covered /\ since > Late
  /\ config.empty_delay > Grace
  /\ watch \notin DOMAIN data
  /\ ~HasRecord(expires, watch)

\* C4 as stated: once a pass that woke TTL + delta_delay or later after some
\* insert of the key has completed, the key is absent until it is inserted
\* again after that pass.
C4_AbsentAfterPass == done.any => watch \notin DOMAIN data

\* C4 amended: once a pass that woke at t0 + TTL + delta_delay or later has
\* completed, the key inserted at t0 is absent from the store, unless the key
\* is inserted again after t0 (not only after that pass).
C4_AbsentAfterPassUnlessReinserted == done.last => watch \notin DOMAIN data

\* C4 witness: such a pass has completed and the key is gone, another key's
\* record still being in the queue.
C4_Witness ==
  /\ done.last
  /\ watch \notin DOMAIN data
  /\ Len(expires) > 0

\* the number of records of key k in the queue
Records(k) == Cardinality({i \in 1..Len(expires) : expires[i].key = k})

\* caller c completes insert in this step
InsertDone(c) == pc[c] = "ins_wd" /\ pc'[c] = "idle"

\* C5, first-write TTL wins: (a) a completed insert appends its record and
\* leaves every older record, those of its own key included, as it was; (b)
\* while no record of k has been popped since k's last insert, the store maps k
\* to the value last inserted; (c) a step that removes a record removes the
\* front one and leaves its key absent from the store, whatever younger
\* records of that key the queue still holds.
C5_FirstWriteWins ==
  /\ [][\A c \in Callers : InsertDone(c) =>
          expires' = Append(expires, [key |-> arg[c].key, elapsed |-> 0,
                                      expires_after |-> config.expires_after])]_vars
  /\ []((latest.value # None /\ ~latest.fired)
          => (watch \in DOMAIN data /\ data[watch] = latest.value))
  /\ [][Len(expires') < Len(expires) =>
          /\ expires' = Tail(expires)
          /\ Head(expires).key \notin DOMAIN data']_vars

\* C5 witness: the key was inserted twice within one TTL; the first record has
\* been popped, and the key is absent although its last insert is younger
\* than the TTL and that insert's record is still pending.
C5_Witness ==
  /\ latest.fired
  /\ since >= 0 /\ since < config.expires_after
  /\ watch \notin DOMAIN data
  /\ Records(watch) = 1 /\ ~FrontDue(expires)

\* a step of a caller or of the task that is not the start of an operation,
\* the passing of time, nor a cancellation
Progress ==
  \/ \E c \in Callers : InsertGotQ(c) \/ InsertBody(c) \/ ReadDrop(c)
  \/ TaskPeek \/ TaskGotQ \/ TaskGotD \/ TaskCheck \/ TaskEvict \/ TaskPassEnd

Locks == <<qlock, dlock>>
Ahead(l, q, p) ==
  \E i, j \in 1..Len(l.waiters) :
    i < j /\ l.waiters[i].proc = q /\ l.waiters[j].proc = p
\* p waits for a lock that q holds or is queued for ahead of p
WaitsFor(p, q) ==
  \E n \in 1..2 :
    Waits(Locks[n], p) /\ (Holds(Locks[n], q) \/ Ahead(Locks[n], q, p))
Blockers(S) == {q \in Procs : \E p \in S : WaitsFor(p, q)}
Reach(p) ==
  Blockers({p}) \cup Blockers(Blockers({p}))
    \cup Blockers(Blockers(Blockers({p})))

\* C6, deadlock freedom: whenever some process waits for the Queue lock or the
\* Store lock, some process can take a step; no process waits, directly or
\* through others, for itself; and a caller in read() neither holds nor waits
\* for the Queue lock.
C6_DeadlockFree ==
  /\ (qlock.waiters # <<>> \/ dlock.waiters # <<>>) => ENABLED Progress
  /\ \A p \in Procs : p \notin Reach(p)
  /\ \A c \in Callers :
       pc[c] = "read" => (~Holds(qlock, c) /\ ~Waits(qlock, c))

\* C6 witness: an insert holds the Queue lock and waits for the Store lock
\* behind a reader, while the task waits for the Queue lock.
C6_Witness ==
  \E c, r \in Callers :
    /\ pc[c] = "ins_wd" /\ Waits(dlock, c)
    /\ Reading(r)
    /\ pc[Task] = "wq_wait" /\ Waits(qlock, Task)

\* C7, eviction happens only while the task runs: while run() is not started
\* or has been cancelled, no step removes a key from the store or a record
\* from the queue, the task holds and awaits neither lock, and a caller inside
\* insert or read can take its next step.
CallerProgress == \E c \in Callers : InsertGotQ(c) \/ InsertBody(c) \/ ReadDrop(c)

C7_NoEvictionUnlessRunning ==
  /\ [][~Running =>
          /\ DOMAIN data \subseteq DOMAIN data'
          /\ Len(expires') >= Len(expires)]_vars
  /\ [](~Running =>
          /\ ~Holds(qlock, Task) /\ ~Waits(qlock, Task)
          /\ ~Holds(dlock, Task) /\ ~Waits(dlock, Task)
          /\ ((\E c \in Callers : pc[c] # "idle") => ENABLED CallerProgress))

\* C7 witness: the task was cancelled while the front record is due and its
\* key is in the store, and a caller holds the read guard.
C7_Witness ==
  /\ pc[Task] = "cancelled"
  /\ FrontDue(expires) /\ Head(expires).key \in DOMAIN data
  /\ \E c \in Callers : Reading(c)

\* no caller is inside insert
InsertsStopped == \A c \in Callers : pc[c] \notin {"ins_wq", "ins_wd"}

\* C8, eviction liveness (task running, weak fairness, readers release their
\* guards): a key is in the store when its insert completes; a key in the
\* store is eventually removed from it or inserted again; and once inserts
\* stop, the queue eventually is and stays empty.
C8_EvictionLiveness ==
  /\ [][\A c \in Callers : InsertDone(c) => arg[c].key \in DOMAIN data']_vars
  /\ (watch \in DOMAIN data /\ since > 0) ~> (watch \notin DOMAIN data \/ since = 0)
  /\ (<>[]InsertsStopped) => <>[](expires = <<>> /\ DOMAIN data = {})

\* C8 witness: both callers' inserts of different keys were pending at the
\* same time, both keys are in the store and both records in the queue, and
\* a reader holds the guard the task's eviction step waits for.
C8_Witness ==
  /\ Len(expires) = 2 /\ expires[1].key # expires[2].key
  /\ DOMAIN data = Keys
  /\ pc[Task] = "wd_wait" /\ Waits(dlock, Task)
  /\ \E c \in Callers : Reading(c)

\* a writer of the store: a caller inside insert, or the task in its eviction step
StoreWriter(p) ==
  IF p = Task THEN pc[p] \in {"wd_wait", "evict", "pop"} ELSE pc[p] = "ins_wd"

\* C9 as stated: a read() request is granted in every state where no writer
\* holds the Store's exclusive lock.
C9_ReadBlockedOnlyByHolder ==
  \A c \in Callers : (pc[c] = "read" /\ dlock.writer = None) => Reading(c)

\* C9 amended: a read() request waits only in states where a writer (insert or
\* the eviction step) holds the Store's exclusive lock or is queued for it
\* ahead of the reader; in every other state it is granted.
C9_ReadBlockedOnlyByWriter ==
  \A c \in Callers :
    (pc[c] = "read" /\ ~Reading(c))
      => \E w \in Procs :
           /\ StoreWriter(w)
           /\ dlock.writer = w \/ Ahead(dlock, w, c)

\* C9 witness: two callers hold the read guard at the same time.
C9_Witness == Cardinality({c \in Callers : Reading(c)}) >= 2

\* the records of q are ordered by age, oldest at the front
Ordered(q) ==
  \A i, j \in 1..Len(q) :
    i < j => /\ q[i].elapsed >= q[j].elapsed
             /\ q[i].expires_after = q[j].expires_after

\* q2 is q after time has passed
Aged(q, q2) ==
  /\ Len(q2) = Len(q)
  /\ \A i \in 1..Len(q) :
       q2[i].key = q[i].key /\ q2[i].elapsed >= q[i].elapsed

\* C10, queue ordering: the records are in insertion order front-to-back (the
\* queue changes only by a record appended at the back by an insert that holds
\* both exclusive locks, by the front record removed, or by its records
\* ageing), and their expiration times are non-decreasing front-to-back (with
\* one TTL for all: their ages are non-increasing).
C10_QueueOrdered ==
  /\ []Ordered(expires)
  /\ [][\/ Aged(expires, expires')
        \/ expires # <<>> /\ expires' = Tail(expires)
        \/ \E c \in Callers :
             /\ qlock.writer = c /\ dlock.writer = c
             /\ SubSeq(expires', 1, Len(expires)) = expires
             /\ Len(expires') = Len(expires) + 1
             /\ expires'[Len(expires')].key = arg[c].key
             /\ expires'[Len(expires')].elapsed = 0]_vars

\* C10 witness: two records of different ages, inserted by different callers
\* whose requests for the Queue lock were both pending, with the task running.
C10_Witness ==
  /\ Len(expires) = 2
  /\ expires[1].elapsed > expires[2].elapsed
  /\ expires[1].key # expires[2].key
  /\ Running

\* C11, the pop never hits an empty queue: the task never panics in
\* pop_front().unwrap(); whenever it stands between the due check and the pop
\* it holds both exclusive locks, the queue is non-empty and its front record
\* is due; and until the pop the queue keeps its records (they only age), so
\* the record popped is the one checked.
C11_PopNeverEmpty ==
  /\ [](pc[Task] # "panicked")
  /\ [](pc[Task] = "pop" =>
          /\ qlock.writer = Task /\ dlock.writer = Task
          /\ expires # <<>>
          /\ Head(expires).elapsed >= Head(expires).expires_after)
  /\ [][(pc[Task] = "pop" /\ pc'[Task] = "pop") => Aged(expires, expires')]_vars

\* C11 witness: the task stands between the check and the pop of the only
\* record, while an insert waits for the Queue lock.
C11_Witness ==
  /\ pc[Task] = "pop"
  /\ Len(expires) = 1
  /\ \E c \in Callers : pc[c] = "ins_wq" /\ Waits(qlock, c)

\* p is queued for the exclusive lock l
WaitsWrite(l, p) ==
  \E i \in 1..Len(l.waiters) : l.waiters[i].proc = p /\ l.waiters[i].mode = "w"

\* C12, lock order: a process that holds or waits for the Store's exclusive
\* lock (inside insert or the eviction step) holds the Queue's exclusive lock,
\* and no process that holds the Store lock, shared or exclusive, waits for
\* the Queue lock.
C12_LockOrder ==
  /\ \A p \in Procs :
       (dlock.writer = p \/ WaitsWrite(dlock, p)) => qlock.writer = p
  /\ \A p \in Procs : Holds(dlock, p) => ~Waits(qlock, p)

\* C12 witness: the eviction step holds the Queue lock and waits for the
\* Store lock behind a reader, while an insert waits for the Queue lock.
C12_Witness ==
  /\ pc[Task] = "wd_wait" /\ WaitsWrite(dlock, Task) /\ qlock.writer = Task
  /\ \E r \in Callers : Reading(r)
  /\ \E c \in Callers : pc[c] = "ins_wq" /\ Waits(qlock, c)

\* C13, a record is popped only when due: the inner loop goes on to the pop
\* only with a front record whose expires_in is zero; every step that removes
\* a record is the task's pop, removes the front record, and finds it no
\* younger than its TTL; that step removes the popped record's key from the
\* store and nothing else; and no other step removes a key from the store.
C13_PoppedOnlyWhenDue ==
  /\ [][(pc[Task] = "evict" /\ pc'[Task] = "pop") =>
          /\ expires # <<>>
          /\ expires_in(Head(expires)) = 0
          /\ Head(expires).elapsed >= Head(expires).expires_after]_vars
  /\ [][Len(expires') < Len(expires) =>
          /\ pc[Task] = "pop"
          /\ expires' = Tail(expires)
          /\ Head(expires).elapsed >= Head(expires).expires_after
          /\ DOMAIN data' = DOMAIN data \ {Head(expires).key}
          /\ \A k \in DOMAIN data' : data'[k] = data[k]]_vars
  /\ [][(\E k \in DOMAIN data : k \notin DOMAIN data')
          => Len(expires') < Len(expires)]_vars

\* C13 witness: the task is about to pop a due front record while the second
\* record, of another key, is not due, and both keys are in the store.
C13_Witness ==
  /\ pc[Task] = "pop"
  /\ Len(expires) = 2
  /\ expires_in(expires[1]) = 0 /\ expires_in(expires[2]) > 0
  /\ expires[1].key # expires[2].key
  /\ DOMAIN data = Keys

\* C14, a pass drains every due record: the step by which the eviction step
\* releases its locks finds the queue empty or its front record not due,
\* leaves the queue as it is, and no record anywhere in the queue is as old
\* as its TTL at that moment.
C14_PassDrains ==
  [][(pc[Task] = "evict" /\ pc'[Task] = "peek_wait") =>
       /\ expires = <<>> \/ Head(expires).elapsed < Head(expires).expires_after
       /\ expires' = expires
       /\ \A i \in 1..Len(expires) : expires[i].elapsed < expires[i].expires_after
       /\ qlock'.writer # Task /\ dlock'.writer # Task]_vars

\* C14 witness: a pass has popped the watched key's record and ended, leaving
\* in the queue a record that was inserted before the pass and is not due.
C14_Witness ==
  /\ pc[Task] = "peek_wait"
  /\ latest.fired /\ ~HasRecord(expires, watch)
  /\ Len(expires) = 1
  /\ expires[1].elapsed > 0 /\ expires_in(expires[1]) > 0

\* the eviction step releases its locks in this step
PassEnds == pc[Task] = "evict" /\ pc'[Task] = "peek_wait"

\* C15 as stated, grouping: whenever a pass pops the record of a key, it also
\* pops every record of another key inserted within delta_delay after it:
\* when the pass ends, the queue holds no such record for the record popped
\* last.
C15_Grouped == [][PassEnds => owed.last = 0]_vars

\* C15 amended, grouping: when the task computed its sleep from the record of
\* a (the front record at its peek), the pass wakes no earlier than a's due
\* time plus delta_delay, and it pops a and every record of another key
\* inserted within delta_delay after a: none is in the queue when the pass ends.
C15_GroupedWithPeekedFront ==
  /\ [][(peeked /\ pc[Task] = "sleep" /\ pc'[Task] = "wq_wait") =>
          /\ expires # <<>>
          /\ Head(expires).elapsed >= Grace]_vars
  /\ [][PassEnds => (~peeked /\ owed.first = 0)]_vars

\* C15 witness: the task, woken by its sleep computed from the front record,
\* is about to pop it, and the second record, of another key, was inserted
\* later than it and within delta_delay of it.
C15_Witness ==
  /\ pc[Task] = "pop" /\ peeked
  /\ Len(expires) = 2
  /\ expires[1].key # expires[2].key
  /\ expires[2].elapsed < config.expires_after + config.delta_delay
  /\ expires[1].elapsed - expires[2].elapsed <= config.delta_delay
  /\ config.delta_delay > 0

\* the queue is empty or its front record is younger than its TTL
NoDueFront(q) == q = <<>> \/ Head(q).elapsed < Head(q).expires_after

\* C16, idempotence of eviction: with the queue empty or its front record not
\* due, the inner loop leaves the queue and the store as they are, and run
\* again on what it left it leaves them unchanged again; and the task in its
\* eviction step then pops nothing: until it releases its locks the store
\* stays as it is and the queue only ages.
C16_EvictionIdempotent ==
  /\ [](NoDueFront(expires) =>
          /\ EvictAll(expires, data) = <<expires, data>>
          /\ EvictAll(EvictAll(expires, data)[1], EvictAll(expires, data)[2])
               = <<expires, data>>)
  /\ [][(pc[Task] = "evict" /\ NoDueFront(expires)) =>
          /\ pc'[Task] \in {"evict", "peek_wait"}
          /\ data' = data
          /\ expires' = expires \/ Aged(expires, expires')]_vars

\* C16 witness: the eviction step holds both locks over a queue of two
\* records whose front is not due, both keys being in the store.
C16_Witness ==
  /\ pc[Task] = "evict"
  /\ Len(expires) = 2 /\ NoDueFront(expires)
  /\ DOMAIN data = Keys

\* C17, a stale record is a no-op on the store: when the pop takes a due
\* record whose key is not in the store, the store stays as it is, the record
\* leaves the queue, the task does not panic and, still holding both locks,
\* goes on to check the next front record.
C17_StaleRecordNoOp ==
  [][(/\ pc[Task] = "pop" /\ pc'[Task] # "pop"
      /\ expires # <<>> /\ Head(expires).key \notin DOMAIN data) =>
       /\ data' = data
       /\ expires' = Tail(expires)
       /\ pc'[Task] = "evict"
       /\ qlock'.writer = Task /\ dlock'.writer = Task]_vars

\* C17 witness: the task is about to pop a record of a key that an earlier
\* record of the same key already removed, while another key is in the store
\* and its record is next in the queue.
C17_Witness ==
  /\ pc[Task] = "pop"
  /\ Len(expires) = 2
  /\ Head(expires).key \notin DOMAIN data
  /\ expires[2].key \in DOMAIN data
  /\ latest.fired

\* C18, the task holds no lock while it sleeps: in its timed sleep the task
\* neither holds nor awaits the Queue lock or the Store lock; the peek that
\* precedes the sleep leaves the queue and the store as they are; and a
\* caller inside insert or read can take its next step during the sleep.
C18_SleepsWithoutLocks ==
  /\ [](pc[Task] = "sleep" =>
          /\ ~Holds(qlock, Task) /\ ~Waits(qlock, Task)
          /\ ~Holds(dlock, Task) /\ ~Waits(dlock, Task)
          /\ ((\E c \in Callers : pc[c] # "idle") => ENABLED CallerProgress))
  /\ [][(pc[Task] = "peek_wait" /\ pc'[Task] = "sleep") =>
          (expires' = expires /\ data' = data)]_vars

\* C18 witness: while the task sleeps on the front record's expiry, an insert
\* holds both exclusive locks and a read waits behind it.
C18_Witness ==
  /\ pc[Task] = "sleep" /\ sleepLeft > 0 /\ peeked
  /\ \E c, r \in Callers :
       /\ pc[c] = "ins_wd" /\ dlock.writer = c /\ qlock.writer = c
       /\ pc[r] = "read" /\ Waits(dlock, r)

\* p is suspended: it waits for a lock, or it is the task in its sleep
Suspended(p) ==
  Waits(qlock, p) \/ Waits(dlock, p) \/ (p = Task /\ pc[p] = "sleep")

\* C19 as stated: a process suspended inside insert or the eviction loop
\* (waiting for a lock, or sleeping) holds neither the Queue lock nor the
\* Store lock, so that a read guard kept for long never keeps the Queue lock
\* held.
C19_NoLockWhileSuspended ==
  \A p \in Procs : Suspended(p) => (~Holds(qlock, p) /\ ~Holds(dlock, p))

\* C19 amended: a suspended process never holds the Store lock, and the task
\* in its sleep holds no lock; insert and the eviction step do hold the
\* Queue's exclusive lock while they wait for the Store's exclusive lock, and
\* only then.
C19_QueueLockHeldOnlyAwaitingStore ==
  \A p \in Procs :
    Suspended(p) =>
      /\ ~Holds(dlock, p)
      /\ Holds(qlock, p) =>
           (qlock.writer = p /\ WaitsWrite(dlock, p) /\ StoreWriter(p))

\* C19 witness: a caller keeps a read guard; an insert waits for the Store
\* lock with the Queue lock held; and the task's peek waits for the Queue
\* lock behind it.
C19_Witness ==
  /\ \E c, r \in Callers :
       /\ Reading(r)
       /\ pc[c] = "ins_wd" /\ WaitsWrite(dlock, c) /\ qlock.writer = c
  /\ pc[Task] = "peek_wait" /\ Waits(qlock, Task)

\* C20, no key leaks out of eviction's reach: whenever no process holds the
\* Store's exclusive lock, every key in the store is the key of a record in
\* the queue.
C20_NoKeyLeak ==
  dlock.writer = None => \A k \in DOMAIN data : HasRecord(expires, k)

\* C20 witness: a key inserted twice is in the store with both its records
\* in the queue, the task running and no process holding the Store lock.
C20_Witness ==
  /\ dlock.writer = None
  /\ watch \in DOMAIN data /\ Records(watch) = 2
  /\ expires[1].elapsed > expires[2].elapsed
  /\ Running
====
